---- MODULE Spec2Model ----
(***************************************************************************)
(* Model of project3/project3.py: the k_means routine and the EM driver    *)
(* MixtureModel.fit.                                                       *)
(*                                                                         *)
(* Numbers.  Data coordinates are integers.  A centroid is an exact        *)
(* rational vector [num |-> <<n_1..n_d>>, den |-> m] standing for          *)
(* (n_1/m, .., n_d/m), kept in lowest terms; den = 0 is the result of      *)
(* 0/0 in every coordinate (NaN).  Distances are compared through their    *)
(* squares, [num, den] with den = 0 for inf (num = 1) and NaN (num = 0).   *)
(* Every comparison that involves NaN is FALSE, as in IEEE arithmetic.     *)
(* Cluster and point indices are 1-based here, 0-based in the source.      *)
(***************************************************************************)
EXTENDS Integers, Sequences, FiniteSets, TLC

(* ---------------- bounds of the model ---------------- *)
MaxN == 3
MaxK == 2
MaxEps == 1
MaxIters == 4

PointSeq == << <<0, 0>>, <<1, 0>>, <<3, 0>>, <<1, 1>> >>

MaxFitIters == 3
MaxLL == 3
MaxLen == 2
MaxFits == 2
MaxEpsNum == 2
EpsDen == 2

\* np.finfo(float).min, scaled: any value whose magnitude exceeds
\* (MaxEpsNum / EpsDen) * MaxLL + MaxLL decides every test the same way
FloatMin == -1000000

\* k_means: arguments, locals, program counter; oldMu is the centroid
\* matrix by value as it was when the current iteration began; callerMu is the
\* caller's own record of the centroids it supplied; ret1 is what the first
\* call returned, as the caller saw it then
VARIABLES data, k, eps, mu, n, d, assignments, cluster_sizes, cluster_sums,
          prev_mu, converged, iters, pc,
          oldMu, callerMu, callNo, ret1

\* MixtureModel: the instance (params, n_train, max_ll), the locals of fit,
\* its result, and the record of the e_step / m_step calls of the current fit;
\* last_np tells whether last_ll is a numpy float64 (as np.finfo(float).min
\* is) or a Python float (as an e_step may return)
VARIABLES params, n_train, max_ll,
          max_iters, feps, ndata, i, last_ll, last_np, ll, fpc, ret,
          calls, tests, fitNo

kvars == <<data, k, eps, mu, n, d, assignments, cluster_sizes, cluster_sums,
           prev_mu, converged, iters, pc, oldMu, callerMu, callNo, ret1>>

fvars == <<params, n_train, max_ll, max_iters, feps, ndata, i, last_ll, last_np, ll, fpc, ret,
           calls, tests, fitNo>>

vars == <<kvars, fvars>>

(* ---------------- arithmetic helpers ---------------- *)
Abs(x) == IF x < 0 THEN -x ELSE x

RECURSIVE GCD(_, _)
GCD(a, b) == IF b = 0 THEN a ELSE GCD(b, a % b)

RECURSIVE GCDSeq(_, _)
GCDSeq(s, g) == IF s = <<>> THEN g ELSE GCDSeq(Tail(s), GCD(g, Abs(Head(s))))

RECURSIVE SumSq(_)
SumSq(v) == IF v = <<>> THEN 0 ELSE Head(v) * Head(v) + SumSq(Tail(v))

IsNaN(c) == c.den = 0

\* an integer point as a centroid row
Row(x) == [num |-> x, den |-> 1]

\* np.zeros(d) as a row
ZeroRow(dd) == [num |-> [j \in 1..dd |-> 0], den |-> 1]

\* lowest terms, so that equal rationals are equal values
Reduce(c) ==
    IF c.den = 0 THEN c
    ELSE LET g == GCDSeq(c.num, c.den)
         IN [num |-> [j \in 1..Len(c.num) |-> c.num[j] \div g], den |-> c.den \div g]

Inf == [num |-> 1, den |-> 0]
NaN == [num |-> 0, den |-> 0]

\* IEEE a < b on squared distances
Less(a, b) ==
    IF a = NaN \/ b = NaN THEN FALSE
    ELSE IF a = Inf THEN FALSE
    ELSE IF b = Inf THEN TRUE
    ELSE a.num * b.den < b.num * a.den

\* IEEE a == b on squared distances
Same(a, b) ==
    IF a = NaN \/ b = NaN THEN FALSE
    ELSE IF a = Inf \/ b = Inf THEN a = b
    ELSE a.num * b.den = b.num * a.den

\* np.linalg.norm(data[pt] - mu[u], ord=2), squared
NormDiffPoint(x, c) ==
    IF IsNaN(c) THEN NaN
    ELSE [num |-> SumSq([j \in 1..Len(x) |-> x[j] * c.den - c.num[j]]),
          den |-> c.den * c.den]

\* np.linalg.norm(mu[i] - prev_mu[i], ord=2), squared
NormDiffRows(a, b) ==
    IF IsNaN(a) \/ IsNaN(b) THEN NaN
    ELSE [num |-> SumSq([j \in 1..Len(a.num) |-> a.num[j] * b.den - b.num[j] * a.den]),
          den |-> (a.den * b.den) * (a.den * b.den)]

(* ---------------- k_means: assignment step ---------------- *)
\* the mutated comparison: <= keeps the last minimum
CloserOrEqual(dist, best) == Less(dist, best) \/ Same(dist, best)

\* line 49: euc_dist < best_euc_dist
Closer(dist, best) == Less(dist, best)

\* lines 42-51: scan of the centroids u .. kk for one point
RECURSIVE ScanCentroids(_, _, _, _, _, _)
ScanCentroids(x, m, kk, u, cluster_id, best) ==
    IF u > kk THEN cluster_id
    ELSE LET euc == NormDiffPoint(x, m[u])
         IN IF Closer(euc, best)
            THEN ScanCentroids(x, m, kk, u + 1, u, euc)
            ELSE ScanCentroids(x, m, kk, u + 1, cluster_id, best)

\* lines 42-53: cluster_id = 0, best = inf (index 1 here)
ClosestCluster(x, m, kk) == ScanCentroids(x, m, kk, 1, 1, Inf)

VecAdd(a, b) == [j \in 1..Len(a) |-> a[j] + b[j]]

\* lines 41-55: the loop over the points, from point pt on
RECURSIVE AssignFrom(_, _, _, _, _)
AssignFrom(pt, dat, m, kk, st) ==
    IF pt > Len(dat) THEN st
    ELSE LET c == ClosestCluster(dat[pt], m, kk)
         IN AssignFrom(pt + 1, dat, m, kk,
               [asg   |-> [st.asg EXCEPT ![pt] = c],
                sizes |-> [st.sizes EXCEPT ![c] = @ + 1],
                sums  |-> [st.sums EXCEPT ![c] = VecAdd(@, dat[pt])]])

(* ---------------- k_means: update step ---------------- *)
\* line 59: cluster_sums[i] / cluster_sizes[i]; a cluster that never received
\* a point has sum 0 and size 0, and numpy yields NaN (with a warning only)
Divide(sum, size) == Reduce([num |-> sum, den |-> size])

(* ---------------- k_means: convergence check ---------------- *)
\* the mutated comparison
ExceedsOrEqual(dist, e) == Less([num |-> e * e, den |-> 1], dist) \/ Same(dist, [num |-> e * e, den |-> 1])

\* line 63: norm > eps
Exceeds(dist, e) == Less([num |-> e * e, den |-> 1], dist)

\* lines 62-66: every cluster overwrites converged
RECURSIVE CheckFrom(_, _, _, _, _, _)
CheckFrom(ci, kk, m, pm, e, conv) ==
    IF ci > kk THEN conv
    ELSE CheckFrom(ci + 1, kk, m, pm, e, ~Exceeds(NormDiffRows(m[ci], pm[ci]), e))

\* the mutated line 69: an independent copy
BindPrevCopy(m) == [alias |-> FALSE, val |-> m]

\* line 69: prev_mu = mu binds prev_mu to the array mu itself
BindPrev(m) == [alias |-> TRUE, val |-> <<>>]

\* the array prev_mu refers to
Deref(p, m) == IF p.alias THEN m ELSE p.val

(* ---------------- inputs ---------------- *)
NPoints == Len(PointSeq)

\* index sequences in nondecreasing order: k_means treats the points
\* independently, so a permutation of data permutes the assignments only
SortedIdx(len) == {s \in [1..len -> 1..NPoints] : \A a \in 1..len - 1 : s[a] <= s[a + 1]}

DataSets == UNION {{[a \in 1..len |-> PointSeq[s[a]]] : s \in SortedIdx(len)} : len \in 1..MaxN}

Centroids(kk) == {[ci \in 1..kk |-> Row(PointSeq[s[ci]])] : s \in [1..kk -> 1..NPoints]}

\* random.sample(range(n), k): ordered choices of k distinct rows
Samples(nn, kk) == {s \in [1..kk -> 1..nn] : \A a, b \in 1..kk : a # b => s[a] # s[b]}

KInit ==
    /\ data \in DataSets
    /\ k \in 1..MaxK
    /\ eps \in 0..MaxEps
    /\ mu \in Centroids(k) \cup {<<>>}        \* <<>> is mu=None
    /\ callerMu = mu
    /\ n = 0 /\ d = 0
    /\ assignments = <<>> /\ cluster_sizes = <<>> /\ cluster_sums = <<>>
    /\ prev_mu = [alias |-> FALSE, val |-> <<>>]
    /\ oldMu = <<>>
    /\ converged = FALSE /\ iters = 0
    /\ pc = "start"
    /\ callNo = 1
    /\ ret1 = <<>>

(* ---------------- MixtureModel.fit ---------------- *)
LLValues == (-MaxLL)..MaxLL

EpsValues == {[num |-> a, den |-> EpsDen] : a \in 0..MaxEpsNum}

\* line 148 raises ZeroDivisionError when ll is 0 and both ll and last_ll are
\* Python floats; a numpy float64 operand makes the division a numpy one,
\* which warns and yields inf or NaN
ZeroDivides(l, lnp, lastnp) == l = 0 /\ ~lnp /\ ~lastnp

\* line 148: abs((ll - last_ll) / ll) < eps, for ll # 0; with a numpy ll = 0
\* the quotient is inf or NaN and the comparison is False
RelChangeBelow(l, last, e) == l # 0 /\ Abs(l - last) * e.den < e.num * Abs(l)

\* lines 78-82: a constructed model, never fitted
FInit ==
    /\ params = [theta |-> 0, p_z |-> <<>>]
    /\ n_train = <<>> /\ max_ll = <<>>
    /\ max_iters = 0 /\ feps = [num |-> 0, den |-> EpsDen] /\ ndata = 0
    /\ i = 0 /\ last_ll = 0 /\ last_np = TRUE /\ ll = 0
    /\ fpc = "idle" /\ ret = <<>>
    /\ calls = <<>> /\ tests = <<>>
    /\ fitNo = 0

\* lines 120-135: fit is entered (again) on the same instance
FitCall ==
    /\ fpc \in {"idle", "done", "raised"}
    /\ fitNo < MaxFits
    /\ fitNo' = fitNo + 1
    /\ max_iters' \in 0..MaxFitIters
    /\ feps' \in EpsValues
    /\ ndata' \in 1..MaxLen
    /\ last_ll' = FloatMin
    /\ last_np' = TRUE
    /\ i' = 0 /\ ll' = 0
    /\ ret' = <<>>
    /\ calls' = <<>> /\ tests' = <<>>
    /\ fpc' = "loop"
    /\ UNCHANGED <<params, n_train, max_ll>>
    /\ UNCHANGED kvars

\* lines 137-139: i > max_iters, return False
FitGiveUp ==
    /\ fpc = "loop"
    /\ i + 1 > max_iters
    /\ i' = i + 1
    /\ ret' = <<FALSE>>
    /\ fpc' = "done"
    /\ UNCHANGED <<params, n_train, max_ll, max_iters, feps, ndata, last_ll, last_np, ll,
                   calls, tests, fitNo>>
    /\ UNCHANGED kvars

\* lines 140-142: e_step on the current parameters, m_step, merge; theta is
\* the number of the m_step whose result the parameters hold
EMCalls(l) ==
    /\ ll' = l
    /\ calls' = calls \o << [op |-> "E", theta |-> params.theta],
                            [op |-> "M", theta |-> params.theta + 1] >>

\* lines 137-150, the test of line 148 is False: next iteration.  e_step
\* returned l, as a numpy float64 (lnp) or as a Python float
FitIterate ==
    /\ fpc = "loop"
    /\ i + 1 <= max_iters
    /\ i' = i + 1
    /\ \E l \in LLValues, lnp \in BOOLEAN :
          /\ ~ZeroDivides(l, lnp, last_np)
          /\ ~RelChangeBelow(l, last_ll, feps)
          /\ EMCalls(l)
          /\ params' = [params EXCEPT !.theta = @ + 1]
          /\ tests' = Append(tests, FALSE)
          /\ last_ll' = l
          /\ last_np' = lnp
    /\ UNCHANGED <<n_train, max_ll, max_iters, feps, ndata, fpc, ret, fitNo>>
    /\ UNCHANGED kvars

\* lines 137-159, the test of line 148 is True: break, set n_train and
\* max_ll, keep p_z, return True
FitConverge ==
    /\ fpc = "loop"
    /\ i + 1 <= max_iters
    /\ i' = i + 1
    /\ \E l \in LLValues :
          /\ RelChangeBelow(l, last_ll, feps)
          /\ EMCalls(l)
          /\ params' = [theta |-> params.theta + 1, p_z |-> <<fitNo, i + 1>>]
          /\ tests' = Append(tests, TRUE)
          /\ max_ll' = <<l>>
    /\ n_train' = <<ndata>>
    /\ ret' = <<TRUE>>
    /\ fpc' = "done"
    /\ UNCHANGED <<max_iters, feps, ndata, last_ll, last_np, fitNo>>
    /\ UNCHANGED kvars

\* lines 137-148, e_step returned the Python float 0.0 and last_ll is a
\* Python float: line 148 raises ZeroDivisionError, which leaves fit
FitZeroDivision ==
    /\ fpc = "loop"
    /\ i + 1 <= max_iters
    /\ i' = i + 1
    /\ ZeroDivides(0, FALSE, last_np)
    /\ EMCalls(0)
    /\ params' = [params EXCEPT !.theta = @ + 1]
    /\ fpc' = "raised"
    /\ UNCHANGED <<n_train, max_ll, max_iters, feps, ndata, last_ll, last_np, ret, tests, fitNo>>
    /\ UNCHANGED kvars

(* ---------------- k_means: actions ---------------- *)
\* lines 18-35 with the locals created
Enter(m) ==
    /\ n' = Len(data)
    /\ d' = Len(data[1])
    /\ mu' = m
    /\ assignments' = [p \in 1..Len(data) |-> 1]
    /\ cluster_sizes' = [ci \in 1..k |-> 0]
    /\ cluster_sums' = [ci \in 1..k |-> [j \in 1..Len(data[1]) |-> 0]]
    /\ prev_mu' = [alias |-> FALSE, val |-> [ci \in 1..k |-> ZeroRow(Len(data[1]))]]
    /\ oldMu' = [ci \in 1..k |-> ZeroRow(Len(data[1]))]
    /\ converged' = FALSE
    /\ iters' = 0
    /\ pc' = "assign"
    /\ UNCHANGED <<data, k, eps, callerMu, callNo, ret1>>
    /\ UNCHANGED fvars

\* lines 18-35, mu given
KMeansInit ==
    /\ pc = "start"
    /\ mu # <<>>
    /\ Enter(mu)

\* lines 18-35, mu is None and k <= n: k distinct rows of data, copied
KMeansInitSample ==
    /\ pc = "start"
    /\ mu = <<>>
    /\ k <= Len(data)
    /\ \E s \in Samples(Len(data), k) : Enter([ci \in 1..k |-> Row(data[s[ci]])])

\* line 24 with k > n: random.sample raises ValueError
KMeansSampleError ==
    /\ pc = "start"
    /\ mu = <<>>
    /\ k > Len(data)
    /\ pc' = "error"
    /\ UNCHANGED <<data, k, eps, mu, n, d, assignments, cluster_sizes, cluster_sums,
                   prev_mu, converged, iters, oldMu, callerMu, callNo, ret1>>
    /\ UNCHANGED fvars

\* lines 36-55: loop test, iters += 1, assignment step
Assign ==
    /\ pc = "assign"
    /\ iters < MaxIters
    /\ iters' = iters + 1
    /\ LET st == AssignFrom(1, data, mu, k,
                   [asg |-> assignments, sizes |-> cluster_sizes, sums |-> cluster_sums])
       IN /\ assignments' = st.asg
          /\ cluster_sizes' = st.sizes
          /\ cluster_sums' = st.sums
    /\ pc' = "update"
    /\ oldMu' = mu
    /\ UNCHANGED <<data, k, eps, mu, n, d, prev_mu, converged, callerMu, callNo, ret1>>
    /\ UNCHANGED fvars

\* lines 57-59: mu[i] is written in place
Update ==
    /\ pc = "update"
    /\ mu' = [ci \in 1..k |-> Divide(cluster_sums[ci], cluster_sizes[ci])]
    /\ pc' = "check"
    /\ UNCHANGED <<data, k, eps, n, d, assignments, cluster_sizes, cluster_sums,
                   prev_mu, converged, iters, oldMu, callerMu, callNo, ret1>>
    /\ UNCHANGED fvars

\* lines 61-71: convergence check, prev_mu = mu, loop test, return
Check ==
    /\ pc = "check"
    /\ converged' = CheckFrom(1, k, mu, Deref(prev_mu, mu), eps, converged)
    /\ prev_mu' = BindPrev(mu)
    /\ pc' = IF converged' THEN "done" ELSE "assign"
    /\ ret1' = IF converged' /\ callNo = 1 THEN <<mu, assignments>> ELSE ret1
    /\ UNCHANGED <<data, k, eps, mu, n, d, assignments, cluster_sizes, cluster_sums,
                   iters, oldMu, callerMu, callNo>>
    /\ UNCHANGED fvars

(* ---------------- a caller that runs k_means twice ---------------- *)
\* second call, same data, k and eps, passing the array of the first call
CallAgainSame ==
    /\ pc = "done" /\ callNo = 1 /\ callerMu # <<>>
    /\ callNo' = 2
    /\ pc' = "start"
    /\ UNCHANGED <<data, k, eps, mu, n, d, assignments, cluster_sizes, cluster_sums,
                   prev_mu, converged, iters, oldMu, callerMu, ret1>>
    /\ UNCHANGED fvars

\* second call, same data, k and eps, passing a new array equal to the
\* centroids the caller supplied to the first call
CallAgainCopy ==
    /\ pc = "done" /\ callNo = 1 /\ callerMu # <<>>
    /\ callNo' = 2
    /\ mu' = callerMu
    /\ pc' = "start"
    /\ UNCHANGED <<data, k, eps, n, d, assignments, cluster_sizes, cluster_sums,
                   prev_mu, converged, iters, oldMu, callerMu, ret1>>
    /\ UNCHANGED fvars

(* ---------------- properties: k_means ---------------- *)
RECURSIVE VecSum(_, _)
VecSum(rows, acc) == IF rows = <<>> THEN acc ELSE VecSum(Tail(rows), VecAdd(acc, Head(rows)))

RECURSIVE Pick(_, _, _)
Pick(dat, asg, c) ==
    IF dat = <<>> THEN <<>>
    ELSE (IF Head(asg) = c THEN <<Head(dat)>> ELSE <<>>) \o Pick(Tail(dat), Tail(asg), c)

\* the mean of a non-empty sequence of points, in lowest terms
MeanOf(rows) == Reduce([num |-> VecSum(rows, [j \in 1..Len(rows[1]) |-> 0]), den |-> Len(rows)])

\* the centroid matrix line 63 is meant to compare with, by value: the zero
\* matrix of line 32 in the first iteration, the previous iteration's
\* centroids afterwards
StoredPrev == IF iters = 1 THEN [c \in 1..k |-> ZeroRow(d)] ELSE oldMu

\* C1: k_means leaves the while loop after an iteration only if in that
\* iteration no cluster's centroid moved by more than eps from the centroid
\* of the previous iteration.  For the first iteration the previous centroid
\* is read either as the initial centroid or as the zero matrix of line 32:
\* a cluster counts as moved only if it moved under both readings.  Stated
\* for the runs in which every centroid is a number.
C1_ExitOnlyIfAllWithinEps ==
    (pc = "done" /\ \A c \in 1..k : ~IsNaN(mu[c])) =>
        \A c \in 1..k :
            ~(/\ Exceeds(NormDiffRows(mu[c], oldMu[c]), eps)
              /\ Exceeds(NormDiffRows(mu[c], StoredPrev[c]), eps))

\* C3: an update step never leaves a NaN (0/0) centroid in the matrix, and
\* k_means never returns one: an empty cluster is surfaced as a failure.
C3_NoNaNCentroid ==
    pc \in {"check", "done"} => \A c \in 1..k : ~IsNaN(mu[c])

C5_SameResultTwice ==
    (pc = "done" /\ callNo = 2) => <<mu, assignments>> = ret1

\* C8: after an assignment step no centroid is strictly closer to a point
\* than the centroid the point is assigned to, and no lower-indexed centroid
\* is at the same distance.
C8_NearestLowestIndex ==
    pc = "update" =>
        \A p \in 1..n :
            LET a == assignments[p]
                da == NormDiffPoint(data[p], mu[a])
            IN \A u \in 1..k :
                  /\ ~Less(NormDiffPoint(data[p], mu[u]), da)
                  /\ u < a => ~Same(NormDiffPoint(data[p], mu[u]), da)

C8_Witness ==
    /\ pc = "update"
    /\ \E p \in 1..n : \E u \in 1..k :
          /\ assignments[p] < u
          /\ mu[u] # mu[assignments[p]]
          /\ Same(NormDiffPoint(data[p], mu[u]), NormDiffPoint(data[p], mu[assignments[p]]))

\* C9: after every update step the centroid of each cluster that received a
\* point in this iteration is the mean of exactly the points assigned to it
\* in this iteration.
C9_MeanOfCurrentAssignments ==
    pc = "check" =>
        \A c \in 1..k :
            LET mine == Pick(data, assignments, c)
            IN mine # <<>> => mu[c] = MeanOf(mine)

C2_FailedFitLeavesNoMetadata ==
    (fpc = "done" /\ ret = <<FALSE>>) => (n_train = <<>> /\ max_ll = <<>>)

\* e_step and m_step alternate, each e_step on the parameters the m_step
\* before it produced
Alternating ==
    /\ \A j \in 1..Len(calls) : calls[j].op = (IF j % 2 = 1 THEN "E" ELSE "M")
    /\ \A j \in 1..Len(calls) - 1 :
          calls[j + 1].theta = (IF j % 2 = 1 THEN calls[j].theta + 1 ELSE calls[j].theta)

\* C6 for a fit that returned
ReturnedAsClaimed ==
    \/ /\ ret = <<TRUE>>
       /\ 1 <= i /\ i <= max_iters
       /\ RelChangeBelow(ll, last_ll, feps)
       /\ \A j \in 1..Len(tests) : tests[j] <=> (j = i)
       /\ Len(calls) = 2 * i
       /\ Alternating
    \/ /\ ret = <<FALSE>>
       /\ \A j \in 1..Len(tests) : ~tests[j]
       /\ Len(tests) = max_iters
       /\ Len(calls) = 2 * max_iters
       /\ Alternating

\* C6: a fit call ends by returning True after the first iteration i <=
\* max_iters whose relative change is below eps, with i e_step and i m_step
\* calls in alternation, and otherwise by returning False after max_iters
\* e_step and max_iters m_step calls.
C6_FitOutcome ==
    fpc \in {"done", "raised"} => ReturnedAsClaimed

\* the outcome of C6, for the fit calls that returned
ReturnedOutcome ==
    fpc = "done" => ReturnedAsClaimed

\* n_train and max_ll change only in a step in which fit converges, to
\* len(data) and the log-likelihood of that step
MetadataOnlyOnSuccess ==
    [][(n_train' # n_train \/ max_ll' # max_ll) =>
          (ret' = <<TRUE>> /\ n_train' = <<ndata>> /\ max_ll' = <<ll'>>
           /\ RelChangeBelow(ll', last_ll, feps))]_vars

\* C7: a log-likelihood of zero does not make fit fail with a division by
\* zero.
C7_ZeroLLGuarded ==
    ~(fpc = "raised" /\ ll = 0)

(* ---------------- specifications ---------------- *)
Init == KInit /\ FInit

\* one call of k_means
Next == KMeansInit \/ KMeansInitSample \/ KMeansSampleError \/ Assign \/ Update \/ Check

Spec == Init /\ [][Next]_vars

\* two calls of k_means in a row
NextTwice == Next \/ CallAgainSame \/ CallAgainCopy

SpecTwice == Init /\ [][NextTwice]_vars

\* fit calls on one model instance
InitFit ==
    /\ FInit
    /\ data = <<>> /\ k = 1 /\ eps = 0 /\ mu = <<>> /\ callerMu = <<>>
    /\ n = 0 /\ d = 0
    /\ assignments = <<>> /\ cluster_sizes = <<>> /\ cluster_sums = <<>>
    /\ prev_mu = [alias |-> FALSE, val |-> <<>>]
    /\ oldMu = <<>>
    /\ converged = FALSE /\ iters = 0
    /\ pc = "idle"
    /\ callNo = 1
    /\ ret1 = <<>>

NextFit == FitCall \/ FitGiveUp \/ FitIterate \/ FitConverge \/ FitZeroDivision

SpecFit == InitFit /\ [][NextFit]_vars

====
